---- MODULE Spec2Model ----
(***************************************************************************)
(* Model of utils.ts of proxmox-vm-orchestrator: the file-set fingerprint  *)
(* (computeMetaHash), the directory walker (readFiles), the materializer   *)
(* (checkFolderExists, writeFiles), normalizeBuffer, stripBasePath and the *)
(* inventory generator wrapper (createAnsibleInventory).                   *)
(*                                                                         *)
(* A string is a sequence of one-character strings, a byte an integer in   *)
(* 0..255, a filesystem path (once resolved) a sequence of segments.       *)
(***************************************************************************)
EXTENDS Integers, Sequences, FiniteSets, TLC

VARIABLES
    \* computeMetaHash called on two file-sets
    hashA, hashB, digestA, digestB,
    \* writeFiles / readFiles over a filesystem (fs0: as it was before the call)
    fs0, fs, workDir, files, pc, idx, result, failedAt, faulted, lastCheck, ops, walked,
    \* stripBasePath
    fullPath, basePath, stripped,
    \* normalizeBuffer
    bufIn, bufOut,
    \* createAnsibleInventory
    invIn, invPc, invOut, invCalls

hashVars == <<hashA, hashB, digestA, digestB>>
fsVars == <<fs0, fs, workDir, files, pc, idx, result, failedAt, faulted, lastCheck, ops, walked>>
pathVars == <<fullPath, basePath, stripped>>
bufVars == <<bufIn, bufOut>>
invVars == <<invIn, invPc, invOut, invCalls>>
vars == <<hashVars, fsVars, pathVars, bufVars, invVars>>

----------------------------------------------------------------------------
(* Bounds of the model. *)

\* longest file-set handed to computeMetaHash
MaxHashFiles == 2
\* longest file-set handed to writeFiles
MaxFiles == 2
\* most segments of a path handed to stripBasePath
MaxSegments == 3
\* most elements of an array or object handed to normalizeBuffer
MaxElems == 2

----------------------------------------------------------------------------
(* Strings. *)

StartsWith(s, p) ==
    /\ Len(s) >= Len(p)
    /\ SubSeq(s, 1, Len(p)) = p

\* s.split(sep) for a one-character separator: empty pieces are kept
RECURSIVE SplitFrom(_, _, _)
SplitFrom(s, sep, cur) ==
    IF s = <<>> THEN <<cur>>
    ELSE IF Head(s) = sep THEN <<cur>> \o SplitFrom(Tail(s), sep, <<>>)
    ELSE SplitFrom(Tail(s), sep, Append(cur, Head(s)))

Split(s, sep) == SplitFrom(s, sep, <<>>)

\* pieces.join(sep)
RECURSIVE JoinWith(_, _)
JoinWith(pieces, sep) ==
    IF pieces = <<>> THEN <<>>
    ELSE IF Len(pieces) = 1 THEN pieces[1]
    ELSE pieces[1] \o <<sep>> \o JoinWith(Tail(pieces), sep)

\* s.trim() = "" for the strings of the model: only blanks
IsBlank(s) == \A i \in 1..Len(s) : s[i] = " "

----------------------------------------------------------------------------
(* Node's path module, POSIX flavour. *)

DotDot == <<".", ".">>
Dot == <<".">>

\* the process's working directory, as resolved segments
Cwd == << <<"w">> >>

\* normalizeString(path, allowAboveRoot): "." and empty segments are dropped, ".."
\* removes the segment before it, or is kept when there is none and
\* allowAboveRoot
RECURSIVE NormSegs(_, _, _)
NormSegs(segs, acc, allowAboveRoot) ==
    IF segs = <<>> THEN acc
    ELSE LET s == Head(segs) IN
         IF s = <<>> \/ s = Dot THEN NormSegs(Tail(segs), acc, allowAboveRoot)
         ELSE IF s = DotDot
              THEN IF acc # <<>> /\ acc[Len(acc)] # DotDot
                   THEN NormSegs(Tail(segs), SubSeq(acc, 1, Len(acc) - 1), allowAboveRoot)
                   ELSE IF allowAboveRoot
                        THEN NormSegs(Tail(segs), Append(acc, s), allowAboveRoot)
                        ELSE NormSegs(Tail(segs), acc, allowAboveRoot)
              ELSE NormSegs(Tail(segs), Append(acc, s), allowAboveRoot)

IsAbsolute(p) == p # <<>> /\ p[1] = "/"

\* posix.normalize(p)
PosixNormalize(p) ==
    IF p = <<>> THEN Dot
    ELSE LET abs == IsAbsolute(p)
             trailing == p[Len(p)] = "/"
             body == JoinWith(NormSegs(Split(p, "/"), <<>>, ~abs), "/")
         IN  IF body = <<>>
             THEN IF abs THEN <<"/">> ELSE IF trailing THEN <<".", "/">> ELSE Dot
             ELSE (IF abs THEN <<"/">> ELSE <<>>) \o body
                  \o (IF trailing THEN <<"/">> ELSE <<>>)

\* path.join(a, b)
PathJoin(a, b) ==
    IF a = <<>> /\ b = <<>> THEN Dot
    ELSE IF a = <<>> THEN PosixNormalize(b)
    ELSE IF b = <<>> THEN PosixNormalize(a)
    ELSE PosixNormalize(a \o <<"/">> \o b)

\* path.resolve(p): the absolute path, as segments below the root
PathResolve(p) ==
    IF IsAbsolute(p) THEN NormSegs(Split(p, "/"), <<>>, FALSE)
    ELSE NormSegs(Cwd \o Split(p, "/"), <<>>, FALSE)

\* length of the longest common prefix of two segment sequences
RECURSIVE CommonLen(_, _)
CommonLen(a, b) ==
    IF a = <<>> \/ b = <<>> \/ Head(a) # Head(b) THEN 0
    ELSE 1 + CommonLen(Tail(a), Tail(b))

\* path.relative(from, to)
PathRelative(from, to) ==
    LET f == PathResolve(from)
        t == PathResolve(to)
        c == CommonLen(f, t)
        ups == [i \in 1..(Len(f) - c) |-> DotDot]
    IN  JoinWith(ups \o SubSeq(t, c + 1, Len(t)), "/")

----------------------------------------------------------------------------
(* JavaScript values that can stand in File.data. *)

\* an element of an array, or a value of an object: its type and, for a number
\* or a boolean, its value
Num(n) == [t |-> "number", v |-> n]
NonNumericString == [t |-> "string", v |-> 0]

Buffer(bytes) == [kind |-> "buffer", bytes |-> bytes, elems |-> <<>>]
Array(elems) == [kind |-> "array", bytes |-> <<>>, elems |-> elems]
Object(elems) == [kind |-> "object", bytes |-> <<>>, elems |-> elems]
Primitive(kind) == [kind |-> kind, bytes |-> <<>>, elems |-> <<>>]

\* ToNumber followed by the conversion to an unsigned byte that Buffer.from
\* applies to each element of an array: NaN becomes 0
ToUint8(e) ==
    CASE e.t = "number" -> e.v % 256
      [] e.t = "boolean" -> e.v
      [] OTHER -> 0

\* Buffer.from(array)
BufferFromArray(elems) == [i \in 1..Len(elems) |-> ToUint8(elems[i])]

Thrown == [ok |-> FALSE, bytes |-> <<>>]
Returned(bytes) == [ok |-> TRUE, bytes |-> bytes]

normalizeBuffer(data) ==
    IF data.kind = "buffer" THEN Returned(data.bytes)
    ELSE IF data.kind = "array" THEN Returned(BufferFromArray(data.elems))
    ELSE IF data.kind = "object" THEN Returned(BufferFromArray(data.elems))
    ELSE Thrown

----------------------------------------------------------------------------
(* computeMetaHash. *)

\* the UTF-8 byte of a character of the model's alphabet
CharCode(c) ==
    CASE c = "\n" -> 10
      [] c = " " -> 32
      [] c = "." -> 46
      [] c = "/" -> 47
      [] c = ":" -> 58
      [] c = "a" -> 97
      [] c = "b" -> 98
      [] c = "c" -> 99
      [] c = "s" -> 115
      [] c = "w" -> 119
      [] c = "[" -> 91
      [] c = "]" -> 93
      [] c = "{" -> 123
      [] c = "}" -> 125

Utf8(s) == [i \in 1..Len(s) |-> CharCode(s[i])]

\* the primary collation weight String.prototype.localeCompare gives a
\* character: punctuation (":" before "." before "/") sorts before letters
CollationWeight(c) ==
    CASE c = "\n" -> 0
      [] c = " " -> 1
      [] c = ":" -> 2
      [] c = "." -> 3
      [] c = "/" -> 4
      [] c = "a" -> 5
      [] c = "b" -> 6
      [] c = "c" -> 7
      [] c = "s" -> 8
      [] c = "w" -> 9

\* a.localeCompare(b): negative, zero or positive
RECURSIVE localeCompare(_, _)
localeCompare(a, b) ==
    IF a = <<>> /\ b = <<>> THEN 0
    ELSE IF a = <<>> THEN -1
    ELSE IF b = <<>> THEN 1
    ELSE IF CollationWeight(Head(a)) < CollationWeight(Head(b)) THEN -1
    ELSE IF CollationWeight(Head(a)) > CollationWeight(Head(b)) THEN 1
    ELSE localeCompare(Tail(a), Tail(b))

\* the sort key of computeMetaHash: `${parentPath}/${name}`
SortKey(file) == file.parentPath \o <<"/">> \o file.name

\* Array.prototype.sort is stable: x goes after every element that does not
\* compare greater than it
RECURSIVE InsertStable(_, _)
InsertStable(sorted, x) ==
    IF sorted = <<>> THEN <<x>>
    ELSE IF localeCompare(SortKey(x), SortKey(Head(sorted))) < 0
         THEN <<x>> \o sorted
         ELSE <<Head(sorted)>> \o InsertStable(Tail(sorted), x)

RECURSIVE StableSort(_, _)
StableSort(fileSeq, sorted) ==
    IF fileSeq = <<>> THEN sorted
    ELSE StableSort(Tail(fileSeq), InsertStable(sorted, Head(fileSeq)))

\* computeMetaHash with the sort left out: the files are hashed in input order
SortFilesInputOrder(fileSeq) == fileSeq

\* [...files].sort((a, b) => key(a).localeCompare(key(b)))
SortFiles(fileSeq) == StableSort(fileSeq, <<>>)

\* what one file feeds the hash: the header, the data, a newline
HashUpdates(file) ==
    Utf8(file.parentPath \o <<":">> \o file.name \o <<":">>)
        \o normalizeBuffer(file.data).bytes \o <<10>>

RECURSIVE HashStream(_)
HashStream(sorted) ==
    IF sorted = <<>> THEN <<>>
    ELSE HashUpdates(Head(sorted)) \o HashStream(Tail(sorted))

\* SHA-256, taken to be collision-free: the digest stands for the stream
Sha256(stream) == [state |-> "digest", sha256 |-> stream]
HashThrown == [state |-> "thrown", sha256 |-> <<>>]
HashPending == [state |-> "pending", sha256 |-> <<>>]
HashNotCalled == [state |-> "idle", sha256 |-> <<>>]

computeMetaHash(fileSeq) ==
    IF \E i \in 1..Len(fileSeq) : ~normalizeBuffer(fileSeq[i].data).ok
    THEN HashThrown
    ELSE Sha256(HashStream(SortFiles(fileSeq)))

----------------------------------------------------------------------------
(* File records, as the callers build them. *)

RootParent == <<".", "/">>
SubParent == <<".", "/", "s">>

\* a File whose path is its parentPath followed by its name, the way index.ts
\* and createAnsibleInventory write their literals
MakeFile(parentPath, name, data, options) ==
    [name |-> name,
     parentPath |-> parentPath,
     path |-> IF parentPath = RootParent THEN parentPath \o name
              ELSE parentPath \o <<"/">> \o name,
     data |-> data,
     options |-> options]

\* the bytes of "\n./:s:", a content that reads like a record boundary
BoundaryBytes == <<10, 46, 47, 58, 115, 58>>

\* the files computeMetaHash is called with
HashFiles ==
    { MakeFile(RootParent, <<"a">>, Buffer(<<>>), "default"),
      MakeFile(RootParent, <<"a">>, Buffer(BoundaryBytes), "default"),
      MakeFile(RootParent, <<"s">>, Buffer(<<>>), "default"),
      MakeFile(SubParent, <<"a">>, Buffer(<<104>>), "default"),
      MakeFile(SubParent, <<"a">>, Array(<<Num(104)>>), "default"),
      MakeFile(RootParent, <<"s">>, Primitive("null"), "default") }

SeqsUpTo(S, n) == UNION { [1..k -> S] : k \in 0..n }

----------------------------------------------------------------------------
(* Specification SpecHash: computeMetaHash applied to two file-sets. *)

HashIdle ==
    /\ hashA = <<>>
    /\ hashB = <<>>
    /\ digestA = HashNotCalled
    /\ digestB = HashNotCalled

InitHash ==
    /\ hashA \in SeqsUpTo(HashFiles, MaxHashFiles)
    /\ hashB \in SeqsUpTo(HashFiles, MaxHashFiles)
    /\ digestA = HashPending
    /\ digestB = HashPending

ComputeMetaHashA ==
    /\ digestA = HashPending
    /\ digestA' = computeMetaHash(hashA)
    /\ UNCHANGED <<hashA, hashB, digestB, fsVars, pathVars, bufVars, invVars>>

ComputeMetaHashB ==
    /\ digestB = HashPending
    /\ digestB' = computeMetaHash(hashB)
    /\ UNCHANGED <<hashA, hashB, digestA, fsVars, pathVars, bufVars, invVars>>

NextHash == ComputeMetaHashA \/ ComputeMetaHashB

----------------------------------------------------------------------------
(* The filesystem: a function from the resolved paths that exist to their  *)
(* nodes. A node is a directory, a regular file or something else (a       *)
(* socket, a FIFO).                                                        *)

DirNode == [kind |-> "dir", data |-> <<>>, mode |-> "default"]
FileNode(bytes, mode) == [kind |-> "file", data |-> bytes, mode |-> mode]
OtherNode == [kind |-> "other", data |-> <<>>, mode |-> "default"]

Exists(fsys, r) == r \in DOMAIN fsys
IsDir(fsys, r) == Exists(fsys, r) /\ fsys[r].kind = "dir"
KindAt(fsys, r) == IF Exists(fsys, r) THEN fsys[r].kind ELSE "absent"

Prefix(r, k) == SubSeq(r, 1, k)
Parent(r) == Prefix(r, Len(r) - 1)

\* the error of a path lookup: ENOTDIR when a proper prefix is not a
\* directory, else ENOENT when the path is missing, else none
LookupError(fsys, r) ==
    IF \E k \in 0..(Len(r) - 1) :
           /\ Exists(fsys, Prefix(r, k))
           /\ ~IsDir(fsys, Prefix(r, k))
           /\ \A j \in 0..(k - 1) : IsDir(fsys, Prefix(r, j))
    THEN "ENOTDIR"
    ELSE IF ~Exists(fsys, r) THEN "ENOENT"
    ELSE "none"

\* fs.mkdir(path, { recursive: true }): the new filesystem, or the error
MkdirRecursive(fsys, r) ==
    IF \E k \in 0..Len(r) : Exists(fsys, Prefix(r, k)) /\ ~IsDir(fsys, Prefix(r, k))
    THEN [ok |-> FALSE, fs |-> fsys,
          error |-> IF Exists(fsys, r) THEN "EEXIST" ELSE "ENOTDIR"]
    ELSE [ok |-> TRUE,
          fs |-> [q \in DOMAIN fsys \cup { Prefix(r, k) : k \in 0..Len(r) } |->
                    IF q \in DOMAIN fsys THEN fsys[q] ELSE DirNode],
          error |-> "none"]

\* fs.writeFile with the flag "a": the bytes go after what the file holds
FsWriteFileAppend(fsys, r, bytes, options) ==
    IF r = <<>> \/ ~IsDir(fsys, Parent(r)) \/ KindAt(fsys, r) \in {"dir", "other"}
    THEN [ok |-> FALSE, fs |-> fsys, error |-> "EISDIR"]
    ELSE [ok |-> TRUE,
          fs |-> [q \in DOMAIN fsys \cup {r} |->
                    IF q # r THEN fsys[q]
                    ELSE IF Exists(fsys, r)
                         THEN FileNode(fsys[r].data \o bytes, fsys[r].mode)
                         ELSE FileNode(bytes, options)],
          error |-> "none"]

\* fs.writeFile(path, bytes, options) with the default flag "w": the file is
\* created or truncated; options carry a permission mode, used on creation
FsWriteFile(fsys, r, bytes, options) ==
    IF r = <<>> \/ ~IsDir(fsys, Parent(r))
    THEN [ok |-> FALSE, fs |-> fsys,
          error |-> IF r = <<>> THEN "EISDIR"
                    ELSE IF LookupError(fsys, Parent(r)) = "none" THEN "ENOTDIR"
                    ELSE LookupError(fsys, Parent(r))]
    ELSE IF KindAt(fsys, r) = "dir" THEN [ok |-> FALSE, fs |-> fsys, error |-> "EISDIR"]
    ELSE IF KindAt(fsys, r) = "other" THEN [ok |-> FALSE, fs |-> fsys, error |-> "ENXIO"]
    ELSE [ok |-> TRUE,
          fs |-> [q \in DOMAIN fsys \cup {r} |->
                    IF q # r THEN fsys[q]
                    ELSE FileNode(bytes, IF Exists(fsys, r) THEN fsys[r].mode ELSE options)],
          error |-> "none"]

\* checkFolderExists(path), no fault injected: "true", "false" or "throw"
checkFolderExists(fsys, path) ==
    LET r == PathResolve(path) IN
    IF LookupError(fsys, r) = "none"
    THEN IF fsys[r].kind = "dir" THEN "true" ELSE "false"
    ELSE IF LookupError(fsys, r) = "ENOENT" THEN "false"
    ELSE "throw"

----------------------------------------------------------------------------
(* stripBasePath. *)

\* s.replace(/^\.\/+/g, ""): a leading "." followed by one or more "/" goes
RECURSIVE DropSlashes(_)
DropSlashes(s) == IF s # <<>> /\ Head(s) = "/" THEN DropSlashes(Tail(s)) ELSE s

StripLeadingDotSlash(s) ==
    IF StartsWith(s, <<".", "/">>) THEN DropSlashes(Tail(s)) ELSE s

StrThrown == [ok |-> FALSE, str |-> <<>>]
StrReturned(s) == [ok |-> TRUE, str |-> s]

stripBasePath(full, base) ==
    LET relativePath == PathRelative(base, full) IN
    IF StartsWith(relativePath, DotDot) THEN StrThrown
    ELSE StrReturned(StripLeadingDotSlash(PosixNormalize(relativePath)))

----------------------------------------------------------------------------
(* readFiles. *)

WalkThrown == [ok |-> FALSE, files |-> <<>>]
WalkReturned(fileSeq) == [ok |-> TRUE, files |-> fileSeq]

\* the names of the entries of directory r
EntryNames(fsys, r) ==
    { q[Len(q)] : q \in { x \in DOMAIN fsys : Len(x) = Len(r) + 1 /\ Prefix(x, Len(r)) = r } }

\* the File readFiles pushes for a regular file
WalkedFile(fsys, dir, baseDir, name) ==
    LET full == PathJoin(dir, name)
        relativeParent == stripBasePath(dir, baseDir)
        relativePath == stripBasePath(full, baseDir)
    IN  IF ~relativeParent.ok \/ ~relativePath.ok THEN WalkThrown
        ELSE WalkReturned(<<[name |-> name,
                             parentPath |-> <<".", "/">> \o relativeParent.str,
                             path |-> <<".", "/">> \o relativePath.str,
                             data |-> Buffer(fsys[PathResolve(full)].data),
                             options |-> "default"]>>)

\* readFiles(dir, baseDir); order is the order in which the directory handle
\* hands out entry names
RECURSIVE readFiles(_, _, _, _)
RECURSIVE readEntries(_, _, _, _, _)
readEntries(fsys, dir, baseDir, order, names) ==
    IF names = <<>> THEN WalkReturned(<<>>)
    ELSE LET full == PathJoin(dir, Head(names))
             kind == fsys[PathResolve(full)].kind
             here == IF kind = "dir" THEN readFiles(fsys, full, baseDir, order)
                     ELSE IF kind = "file" THEN WalkedFile(fsys, dir, baseDir, Head(names))
                     ELSE WalkReturned(<<>>)
         IN  IF ~here.ok THEN WalkThrown
             ELSE LET rest == readEntries(fsys, dir, baseDir, order, Tail(names))
                  IN  IF ~rest.ok THEN WalkThrown
                      ELSE WalkReturned(here.files \o rest.files)

readFiles(fsys, dir, baseDir, order) ==
    LET r == PathResolve(dir) IN
    IF LookupError(fsys, r) # "none" \/ fsys[r].kind # "dir" THEN WalkThrown
    ELSE readEntries(fsys, dir, baseDir, order,
                     SelectSeq(order, LAMBDA n : n \in EntryNames(fsys, r)))

----------------------------------------------------------------------------
(* Specification SpecWrite: writeFiles(workDir, files) on a filesystem,    *)
(* one action per awaited filesystem call, then readFiles(workDir).        *)

WorkDirPath == <<".", "/", "o", "/", "t">>
WorkR == PathResolve(WorkDirPath)

HiddenName == <<".", ".", "c">>

\* the files writeFiles is called with
WriteFilesUniverse ==
    { MakeFile(RootParent, <<"a">>, Buffer(<<104, 105>>), "default"),
      MakeFile(RootParent, <<"a">>, Array(<<Num(258)>>), "default"),
      MakeFile(RootParent, <<"s">>, Buffer(<<>>), "mode0600"),
      MakeFile(SubParent, <<"a">>, Array(<<Num(104), Num(105)>>), "default"),
      MakeFile(RootParent, HiddenName, Buffer(<<1>>), "default"),
      MakeFile(SubParent, <<"a">>, Primitive("null"), "default") }

FsOf(nodes) == [q \in DOMAIN nodes \cup {<<>>, Cwd} |->
                   IF q \in DOMAIN nodes THEN nodes[q] ELSE DirNode]

\* neither workDir nor its parent exists
FsAbsent == FsOf(<<>>)
\* workDir exists and is empty
FsEmpty == FsOf((Parent(WorkR) :> DirNode) @@ (WorkR :> DirNode))
\* workDir holds a file a, and a directory s with a socket a in it
FsPopulated ==
    FsOf((Parent(WorkR) :> DirNode) @@ (WorkR :> DirNode)
         @@ (Append(WorkR, <<"a">>) :> FileNode(<<9, 9, 9>>, "default"))
         @@ (Append(WorkR, <<"s">>) :> DirNode)
         @@ (Append(Append(WorkR, <<"s">>), <<"a">>) :> OtherNode))
\* workDir holds a directory s with a file s in it
FsNested ==
    FsOf((Parent(WorkR) :> DirNode) @@ (WorkR :> DirNode)
         @@ (Append(WorkR, <<"s">>) :> DirNode)
         @@ (Append(Append(WorkR, <<"s">>), <<"s">>) :> FileNode(<<7>>, "default")))
\* the parent of workDir is a regular file
FsParentIsFile == FsOf(Parent(WorkR) :> FileNode(<<>>, "default"))
\* workDir is a regular file
FsWorkDirIsFile ==
    FsOf((Parent(WorkR) :> DirNode) @@ (WorkR :> FileNode(<<>>, "default")))

InitialFilesystems ==
    {FsAbsent, FsEmpty, FsPopulated, FsNested, FsParentIsFile, FsWorkDirIsFile}

NoCheck == [path |-> <<>>, outcome |-> "none", found |-> "none"]
Pending == [state |-> "pending", digest |-> HashPending, error |-> "none"]
Rejected(error) == [state |-> "thrown", digest |-> HashPending, error |-> error]
Resolved(digest) == [state |-> "returned", digest |-> digest, error |-> "none"]
NotWalked == [state |-> "pending", files |-> <<>>, fault |-> FALSE]

WriteIdle ==
    /\ fs0 = FsAbsent
    /\ fs = FsAbsent
    /\ workDir = WorkDirPath
    /\ files = <<>>
    /\ pc = "idle"
    /\ idx = 0
    /\ result = Pending
    /\ failedAt = -1
    /\ faulted = FALSE
    /\ lastCheck = NoCheck
    /\ ops = <<>>
    /\ walked = NotWalked

InitWrite ==
    /\ fs0 \in InitialFilesystems
    /\ fs = fs0
    /\ workDir = WorkDirPath
    /\ files \in SeqsUpTo(WriteFilesUniverse, MaxFiles)
    /\ pc = "checkWorkDir"
    /\ idx = 0
    /\ result = Pending
    /\ failedAt = -1
    /\ faulted = FALSE
    /\ lastCheck = NoCheck
    /\ ops = <<>>
    /\ walked = NotWalked

\* join(workDir, file.parentPath.toString())
TargetDir(file) == PathJoin(workDir, file.parentPath)
\* join(targetDir, file.name)
TargetPath(file) == PathJoin(TargetDir(file), file.name)

Op(op, rec, path, ok) == [op |-> op, rec |-> rec, path |-> PathResolve(path), ok |-> ok]

\* the error is recorded and the loop goes on with the next record
RejectAndGoOn(error) ==
    /\ pc' = IF idx + 1 > Len(files) THEN "failed" ELSE "checkTargetDir"
    /\ result' = Rejected(error)
    /\ failedAt' = idx
    /\ idx' = idx + 1

\* an awaited call throws and nothing catches it: the promise of writeFiles
\* rejects, and nothing of the function runs after it
Reject(error) ==
    /\ pc' = "failed"
    /\ result' = Rejected(error)
    /\ failedAt' = idx
    /\ idx' = idx

\* the loop bound taken one short: computeMetaHash is reached while the last
\* record is still to be written
NextRecordBeforeLast ==
    /\ idx' = idx + 1
    /\ pc' = IF idx + 1 >= Len(files) THEN "hash" ELSE "checkTargetDir"

\* after record idx, or after the workDir stage when idx = 0: the next
\* record, or computeMetaHash when there is none
NextRecord ==
    /\ idx' = idx + 1
    /\ pc' = IF idx + 1 > Len(files) THEN "hash" ELSE "checkTargetDir"

\* await checkFolderExists(path), with the fault the disk may raise
AwaitCheckFolderExists(path, fault, ifMissing) ==
    LET outcome == IF fault # "none" THEN "throw" ELSE checkFolderExists(fs, path) IN
    /\ lastCheck' = [path |-> PathResolve(path), outcome |-> outcome,
                     found |-> KindAt(fs, PathResolve(path))]
    /\ ops' = Append(ops, Op("stat", idx, path, outcome # "throw"))
    /\ faulted' = (faulted \/ fault # "none")
    /\ CASE outcome = "throw" ->
             Reject(IF fault # "none" THEN fault ELSE LookupError(fs, PathResolve(path)))
         [] outcome = "false" ->
             /\ pc' = ifMissing
             /\ UNCHANGED <<idx, result, failedAt>>
         [] outcome = "true" ->
             /\ IF ifMissing = "mkdirWorkDir" THEN NextRecord
                ELSE pc' = "writeFile" /\ UNCHANGED idx
             /\ UNCHANGED <<result, failedAt>>
    /\ UNCHANGED <<fs0, fs, workDir, files, walked>>

\* await fs.mkdir(path, { recursive: true })
AwaitMkdir(path, fault, thenWrite) ==
    LET made == IF fault # "none" THEN [ok |-> FALSE, fs |-> fs, error |-> fault]
                ELSE MkdirRecursive(fs, PathResolve(path)) IN
    /\ fs' = made.fs
    /\ ops' = Append(ops, Op("mkdir", idx, path, made.ok))
    /\ faulted' = (faulted \/ fault # "none")
    /\ IF made.ok
       THEN /\ IF thenWrite THEN pc' = "writeFile" /\ UNCHANGED idx ELSE NextRecord
            /\ UNCHANGED <<result, failedAt>>
       ELSE Reject(made.error)
    /\ UNCHANGED <<fs0, workDir, files, lastCheck, walked>>

CheckWorkDir ==
    /\ pc = "checkWorkDir"
    /\ \E fault \in {"none", "EACCES"} :
           AwaitCheckFolderExists(workDir, fault, "mkdirWorkDir")
    /\ UNCHANGED <<hashVars, pathVars, bufVars, invVars>>

MkdirWorkDir ==
    /\ pc = "mkdirWorkDir"
    /\ \E fault \in {"none", "EACCES"} : AwaitMkdir(workDir, fault, FALSE)
    /\ UNCHANGED <<hashVars, pathVars, bufVars, invVars>>

CheckTargetDir ==
    /\ pc = "checkTargetDir"
    /\ \E fault \in {"none", "EACCES"} :
           AwaitCheckFolderExists(TargetDir(files[idx]), fault, "mkdirTargetDir")
    /\ UNCHANGED <<hashVars, pathVars, bufVars, invVars>>

MkdirTargetDir ==
    /\ pc = "mkdirTargetDir"
    /\ \E fault \in {"none", "EACCES"} : AwaitMkdir(TargetDir(files[idx]), fault, TRUE)
    /\ UNCHANGED <<hashVars, pathVars, bufVars, invVars>>

\* await fs.writeFile(join(targetDir, file.name), normalizeBuffer(file.data),
\* file.options || {}): normalizeBuffer runs first and may throw; a full disk
\* (ENOSPC) fails the write after the file was created or truncated
WriteFile ==
    /\ pc = "writeFile"
    /\ LET file == files[idx]
           bytes == normalizeBuffer(file.data)
           r == PathResolve(TargetPath(file))
       IN  IF ~bytes.ok
           THEN /\ Reject("unsupported data")
                /\ UNCHANGED <<fs, faulted, ops>>
           ELSE \E fault \in {"none", "EACCES", "ENOSPC"} :
                  LET written == FsWriteFile(fs, r, bytes.bytes, file.options)
                      failed == fault # "none" \/ ~written.ok
                  IN  /\ fs' = CASE fault = "none" -> written.fs
                                  [] fault = "EACCES" -> fs
                                  [] fault = "ENOSPC" ->
                                         FsWriteFile(fs, r, <<>>, file.options).fs
                      /\ ops' = Append(ops, Op("writeFile", idx, TargetPath(file), ~failed))
                      /\ faulted' = (faulted \/ fault # "none")
                      /\ IF failed
                         THEN Reject(IF written.ok THEN fault ELSE written.error)
                         ELSE NextRecord /\ UNCHANGED <<result, failedAt>>
    /\ UNCHANGED <<fs0, workDir, files, lastCheck, walked>>
    /\ UNCHANGED <<hashVars, pathVars, bufVars, invVars>>

\* return computeMetaHash(files)
ReturnHash ==
    /\ pc = "hash"
    /\ result' = Resolved(computeMetaHash(files))
    /\ pc' = "done"
    /\ UNCHANGED <<fs0, fs, workDir, files, idx, failedAt, faulted, lastCheck, ops, walked>>
    /\ UNCHANGED <<hashVars, pathVars, bufVars, invVars>>

\* the names of all the entries below workDir
NamesBelow(fsys) ==
    { q[Len(q)] : q \in { x \in DOMAIN fsys :
                             Len(x) > Len(WorkR) /\ Prefix(x, Len(WorkR)) = WorkR } }

Orders(S) == { o \in [1..Cardinality(S) -> S] : \A i, j \in DOMAIN o : i # j => o[i] # o[j] }

\* readFiles(workDir), called before writeFiles or once it has settled; the
\* directory handle may hand out the entries in any order, and a read may fail
ReadFiles ==
    /\ pc \in {"checkWorkDir", "done", "failed"}
    /\ \E order \in Orders(NamesBelow(fs)), fault \in {"none", "EACCES"} :
          LET read == IF fault # "none" THEN WalkThrown
                      ELSE readFiles(fs, workDir, workDir, order)
          IN  walked' = [state |-> IF read.ok THEN "returned" ELSE "thrown",
                         files |-> read.files,
                         fault |-> fault # "none"]
    /\ pc' = "walked"
    /\ UNCHANGED <<fs0, fs, workDir, files, idx, result, failedAt, faulted, lastCheck, ops>>
    /\ UNCHANGED <<hashVars, pathVars, bufVars, invVars>>

NextWrite ==
    \/ CheckWorkDir
    \/ MkdirWorkDir
    \/ CheckTargetDir
    \/ MkdirTargetDir
    \/ WriteFile
    \/ ReturnHash
    \/ ReadFiles

----------------------------------------------------------------------------
(* Specification SpecStrip: stripBasePath applied to a pair of paths.      *)

StripPending == [state |-> "pending", str |-> <<>>]

Segments == { <<"a">>, <<"b">>, <<"c">>, Dot, DotDot, HiddenName }

\* "/" followed by the segments, joined by "/"
AbsolutePath(segs) == <<"/">> \o JoinWith(segs, "/")

FullPaths == { AbsolutePath(segs) : segs \in SeqsUpTo(Segments, MaxSegments) }
    \cup { WorkDirPath, PathJoin(WorkDirPath, <<"a">>), <<"a">> }

BasePaths == { AbsolutePath(<< <<"a">>, <<"b">> >>), AbsolutePath(<< <<"a">> >>),
               AbsolutePath(<< <<"a">>, <<"b">> >>) \o <<"/">>, WorkDirPath }

StripIdle ==
    /\ fullPath = <<>>
    /\ basePath = <<>>
    /\ stripped = [state |-> "idle", str |-> <<>>]

InitStrip ==
    /\ fullPath \in FullPaths
    /\ basePath \in BasePaths
    /\ stripped = StripPending

StripBasePath ==
    /\ stripped = StripPending
    /\ LET out == stripBasePath(fullPath, basePath)
       IN  stripped' = [state |-> IF out.ok THEN "returned" ELSE "thrown", str |-> out.str]
    /\ UNCHANGED <<fullPath, basePath, hashVars, fsVars, bufVars, invVars>>

NextStrip == StripBasePath

----------------------------------------------------------------------------
(* Specification SpecBuffer: normalizeBuffer applied to a value.           *)

BufferPending == [state |-> "pending", bytes |-> <<>>]

Bytes == {0, 104, 255}

\* what an array or the values of an object may hold
Elements ==
    { Num(104), Num(255), Num(258), Num(-1), NonNumericString,
      [t |-> "null", v |-> 0], [t |-> "boolean", v |-> 1] }

PrimitiveKinds ==
    {"null", "undefined", "string", "number", "boolean", "bigint", "symbol", "function"}

BufferInputs ==
    { Buffer(b) : b \in SeqsUpTo(Bytes, MaxElems) }
    \cup { Array(e) : e \in SeqsUpTo(Elements, MaxElems) }
    \cup { Object(e) : e \in SeqsUpTo(Elements, MaxElems) }
    \cup { Primitive(k) : k \in PrimitiveKinds }

BufferIdle ==
    /\ bufIn = Primitive("undefined")
    /\ bufOut = [state |-> "idle", bytes |-> <<>>]

InitBuffer ==
    /\ bufIn \in BufferInputs
    /\ bufOut = BufferPending

NormalizeBuffer ==
    /\ bufOut = BufferPending
    /\ LET out == normalizeBuffer(bufIn)
       IN  bufOut' = [state |-> IF out.ok THEN "returned" ELSE "thrown", bytes |-> out.bytes]
    /\ UNCHANGED <<bufIn, hashVars, fsVars, pathVars, invVars>>

NextBuffer == NormalizeBuffer

----------------------------------------------------------------------------
(* createAnsibleInventory. *)

\* typeof value
TypeOf(kind) ==
    IF kind \in {"object", "array", "null", "circular", "throwingToJSON", "undefinedJSON"}
    THEN "object"
    ELSE kind

InventoryName == <<"i", "n", "v", "e", "n", "t", "o", "r", "y", ".", "j", "s", "o", "n">>

NoFile ==
    [name |-> <<>>, parentPath |-> <<>>, path |-> <<>>, data |-> Primitive("undefined"),
     options |-> "default"]

\* the message of the error thrown, and what it quotes from its cause
Message(text, cause) == [text |-> text, cause |-> cause]
NoMessage == Message("", "")

\* err.message, read in a catch block: the message of an Error, and a
\* TypeError of its own when the value caught is null
CaughtMessage(text, thrown) ==
    IF thrown = "null"
    THEN Message("Cannot read properties of null (reading 'message')", "")
    ELSE Message(text, "boom")

InvThrown(message, effects) ==
    [state |-> "thrown", message |-> message, file |-> NoFile, effects |-> effects]
InvReturned(file, effects) ==
    [state |-> "returned", message |-> NoMessage, file |-> file, effects |-> effects]
InvPending == [state |-> "pending", message |-> NoMessage, file |-> NoFile, effects |-> <<>>]

\* JSON.stringify(inventoryObj, null, 2) of the objects of the model
JsonText(kind) == IF kind = "array" THEN <<"[", "]">> ELSE <<"{", "}">>

\* in: the path argument, what import() settles to, the module's default
\* export, ctx, and what the default export does when called.
\* effects: the calls made into the module, in order
createAnsibleInventory(in) ==
    IF in.pathArg.type # "string" \/ IsBlank(in.pathArg.str)
    THEN InvThrown(Message("Invalid pathToInventory: must be a non-empty string", ""), <<>>)
    ELSE IF in.import # "module"
    THEN InvThrown(CaughtMessage("Failed to import module from path", in.import),
                   <<"import">>)
    ELSE IF TypeOf(in.defaultExport) # "function"
    THEN InvThrown(Message("Imported module does not have a default export function", ""),
                   <<"import">>)
    ELSE IF TypeOf(in.ctx) # "object" \/ in.ctx = "null"
    THEN InvThrown(Message("Invalid context object (ctx): must be a non-null object", ""),
                   <<"import">>)
    ELSE IF in.generator.throws # "nothing"
    THEN InvThrown(CaughtMessage("Error running inventory function", in.generator.throws),
                   <<"import", "call">>)
    ELSE IF TypeOf(in.generator.returns) # "object" \/ in.generator.returns = "null"
    THEN InvThrown(Message("The default export function did not return a valid object", ""),
                   <<"import", "call">>)
    ELSE IF in.generator.returns = "circular"
    THEN InvThrown(CaughtMessage("Failed to stringify inventory object", "Error"),
                   <<"import", "call", "stringify">>)
    ELSE IF in.generator.returns = "throwingToJSON"
    THEN InvThrown(CaughtMessage("Failed to stringify inventory object", "null"),
                   <<"import", "call", "stringify">>)
    ELSE IF in.generator.returns = "undefinedJSON"
    THEN InvThrown(Message("The first argument must be of type string", ""),
                   <<"import", "call", "stringify">>)
    ELSE InvReturned([name |-> InventoryName,
                      parentPath |-> <<".", "/">>,
                      path |-> <<".", "/">> \o InventoryName,
                      data |-> Buffer(Utf8(JsonText(in.generator.returns))),
                      options |-> "default"],
                     <<"import", "call", "stringify">>)

----------------------------------------------------------------------------
(* Specification SpecInventory: createAnsibleInventory applied once.       *)

PathArgs ==
    { [type |-> "string", str |-> <<".", "/", "a">>],
      [type |-> "string", str |-> <<>>],
      [type |-> "string", str |-> <<" ", " ">>],
      [type |-> "number", str |-> <<>>],
      [type |-> "undefined", str |-> <<>>] }

\* import() resolves to the module, or rejects with an Error or with null
ImportResults == {"module", "Error", "null"}
DefaultExports == {"function", "undefined", "object"}
Contexts == {"object", "array", "null", "undefined", "string"}

\* the default export throws an Error or null, or returns a value: a plain
\* object or array, null, a primitive, an object with a cycle, an object
\* whose toJSON throws null, an object whose toJSON returns undefined
Generators ==
    { [throws |-> t, returns |-> "undefined"] : t \in {"Error", "null"} }
    \cup { [throws |-> "nothing", returns |-> r] :
              r \in {"object", "array", "null", "string", "undefined", "function",
                     "circular", "throwingToJSON", "undefinedJSON"} }

InventoryInputs ==
    [pathArg : PathArgs, import : ImportResults, defaultExport : DefaultExports,
     ctx : Contexts, generator : Generators]

InventoryIdle ==
    /\ invIn = [pathArg |-> [type |-> "undefined", str |-> <<>>], import |-> "module",
                defaultExport |-> "undefined", ctx |-> "undefined",
                generator |-> [throws |-> "nothing", returns |-> "undefined"]]
    /\ invPc = "idle"
    /\ invOut = InvPending
    /\ invCalls = 0

InitInventory ==
    /\ invIn \in InventoryInputs
    /\ invPc = "start"
    /\ invOut = InvPending
    /\ invCalls = 0

\* invCalls counts the calls of the module's default export
CreateAnsibleInventory ==
    /\ invPc = "start"
    /\ invOut' = createAnsibleInventory(invIn)
    /\ invCalls' = Cardinality({ i \in DOMAIN invOut'.effects : invOut'.effects[i] = "call" })
    /\ invPc' = "settled"
    /\ UNCHANGED <<invIn, hashVars, fsVars, pathVars, bufVars>>

NextInventory == CreateAnsibleInventory

----------------------------------------------------------------------------
(* The specifications. *)

HashInit == InitHash /\ WriteIdle /\ StripIdle /\ BufferIdle /\ InventoryIdle
WriteInit == HashIdle /\ InitWrite /\ StripIdle /\ BufferIdle /\ InventoryIdle
StripInit == HashIdle /\ WriteIdle /\ InitStrip /\ BufferIdle /\ InventoryIdle
BufferInit == HashIdle /\ WriteIdle /\ StripIdle /\ InitBuffer /\ InventoryIdle
InventoryInit == HashIdle /\ WriteIdle /\ StripIdle /\ BufferIdle /\ InitInventory

SpecHash == HashInit /\ [][NextHash]_vars
SpecWrite == WriteInit /\ [][NextWrite]_vars
SpecStrip == StripInit /\ [][NextStrip]_vars
SpecBuffer == BufferInit /\ [][NextBuffer]_vars
SpecInventory == InventoryInit /\ [][NextInventory]_vars

Init == HashInit \/ WriteInit \/ StripInit \/ BufferInit \/ InventoryInit

Next == NextHash \/ NextWrite \/ NextStrip \/ NextBuffer \/ NextInventory

Spec == Init /\ [][Next]_vars

----------------------------------------------------------------------------
(* Claims about computeMetaHash, under SpecHash. *)

HashesDone == digestA.state # "pending" /\ digestB.state # "pending"

\* what the fingerprint is meant to depend on: parentPath, name, content
Triple(file) ==
    [parentPath |-> file.parentPath, name |-> file.name,
     content |-> normalizeBuffer(file.data)]

\* how often fileSeq holds the record f, and a record with the triple of f
CountRecord(fileSeq, f) == Cardinality({ i \in DOMAIN fileSeq : fileSeq[i] = f })
CountTriple(fileSeq, f) ==
    Cardinality({ i \in DOMAIN fileSeq : Triple(fileSeq[i]) = Triple(f) })

\* b is a permutation of a
IsPermutation(a, b) ==
    /\ Len(a) = Len(b)
    /\ \A f \in HashFiles : CountRecord(a, f) = CountRecord(b, f)

\* a and b hold the same (parentPath, name, content) triples, as often
SameTriples(a, b) ==
    /\ Len(a) = Len(b)
    /\ \A f \in HashFiles : CountTriple(a, f) = CountTriple(b, f)

\* any two records of fileSeq whose sort keys compare equal agree in
\* parentPath, name and content
TiesAgree(fileSeq) ==
    \A i, j \in DOMAIN fileSeq :
        localeCompare(SortKey(fileSeq[i]), SortKey(fileSeq[j])) = 0
            => Triple(fileSeq[i]) = Triple(fileSeq[j])

\* C1, as claimed: whatever the sort keys, a permutation of a file-set has
\* the digest of the file-set
C1_PermutationSameDigest ==
    (HashesDone /\ IsPermutation(hashA, hashB)) => digestA = digestB

\* C1, amended: a permutation of a file-set has the digest of the file-set
\* when the records whose sort keys compare equal agree in parentPath, name
\* and content (so whenever the keys are pairwise distinct)
C1_PermutationSameDigestWhenTiesAgree ==
    (HashesDone /\ IsPermutation(hashA, hashB) /\ TiesAgree(hashA))
        => digestA = digestB

\* both digests are computed from two different orders of a file-set of
\* two records with distinct keys, and they are equal
C1_Witness ==
    /\ HashesDone
    /\ digestA.state = "digest"
    /\ IsPermutation(hashA, hashB)
    /\ hashA # hashB
    /\ TiesAgree(hashA)
    /\ digestA = digestB

\* C2: with SHA-256 collision-free, file-sets whose collections of
\* (parentPath, name, content) triples differ have different fingerprints
C2_DifferentTriplesDifferentDigest ==
    (HashesDone /\ digestA.state = "digest" /\ digestB.state = "digest"
        /\ ~SameTriples(hashA, hashB))
        => digestA # digestB

----------------------------------------------------------------------------
(* Claims about checkFolderExists, writeFiles and readFiles, under         *)
(* SpecWrite.                                                              *)

\* where the specification puts a record: workDirectory/parentPath/name
ExpectedPath(file) ==
    PathResolve(workDir \o <<"/">> \o file.parentPath \o <<"/">> \o file.name)

\* the record's content is on disk at its place
Materialized(file) ==
    /\ IsDir(fs, Parent(ExpectedPath(file)))
    /\ KindAt(fs, ExpectedPath(file)) = "file"
    /\ fs[ExpectedPath(file)].data = normalizeBuffer(file.data).bytes

DistinctTargets ==
    \A i, j \in DOMAIN files : i # j => ExpectedPath(files[i]) # ExpectedPath(files[j])

WriteSettled == pc \in {"done", "failed", "walked"}
WriteReturned == WriteSettled /\ result.state = "returned"
\* writeFiles was rejected by a failed filesystem call
WriteFailedOnDisk ==
    WriteSettled /\ result.state = "thrown" /\ result.error # "unsupported data"

\* C3: a filesystem call fails while record failedAt is processed: the
\* call is over once the error is raised, no fingerprint is returned, every earlier record has its directory and its
\* file on disk (with its content, unless a later record up to failedAt
\* has the same place), and no filesystem call is made for a later record
C3_FailureKeepsEarlierWrites ==
    /\ result.state = "thrown" => pc \in {"failed", "walked"}
    /\ (WriteFailedOnDisk /\ failedAt >= 1) =>
        /\ result.digest = HashPending
        /\ \A j \in 1..(failedAt - 1) :
              /\ IsDir(fs, Parent(ExpectedPath(files[j])))
              /\ KindAt(fs, ExpectedPath(files[j])) = "file"
              /\ (\A k \in (j + 1)..failedAt :
                      ExpectedPath(files[k]) # ExpectedPath(files[j]))
                    => Materialized(files[j])
        /\ \A n \in DOMAIN ops : ops[n].rec <= failedAt
        /\ ops[Len(ops)].rec = failedAt /\ ~ops[Len(ops)].ok

\* the write of the second record failed, and the first record is on disk
C3_Witness ==
    /\ WriteFailedOnDisk
    /\ pc = "walked"
    /\ failedAt = 2
    /\ Materialized(files[1])
    /\ ops[Len(ops)].op = "writeFile"

\* C4: checkFolderExists returns false only for a path that does not
\* exist, true only for a directory, and throws for a path that exists and
\* is not a directory
C4_CheckFolderExistsThreeOutcomes ==
    lastCheck.outcome # "none" =>
        /\ lastCheck.outcome = "false" => lastCheck.found = "absent"
        /\ lastCheck.outcome = "true" => lastCheck.found = "dir"
        /\ lastCheck.found \in {"file", "other"} => lastCheck.outcome = "throw"

Pairs(fileSeq) ==
    { [path |-> fileSeq[i].path, content |-> normalizeBuffer(fileSeq[i].data).bytes] :
        i \in DOMAIN fileSeq }

HasDotDotSegment(s) == \E i \in DOMAIN Split(s, "/") : Split(s, "/")[i] = DotDot

\* path is parentPath joined with name
PathIsParentAndName(file) ==
    file.path = IF file.parentPath = RootParent THEN file.parentPath \o file.name
                ELSE file.parentPath \o <<"/">> \o file.name

\* the hypotheses of the round trip: pairwise distinct paths, no ".."
\* segment, path = parentPath joined with name, a fresh directory
RoundTripInput ==
    /\ fs0 \in {FsAbsent, FsEmpty}
    /\ \A i, j \in DOMAIN files : i # j => files[i].path # files[j].path
    /\ \A i \in DOMAIN files :
          /\ ~HasDotDotSegment(files[i].parentPath)
          /\ ~HasDotDotSegment(files[i].path)
          /\ PathIsParentAndName(files[i])

\* C6: a file-set written to a fresh directory by a writeFiles that
\* returned, then walked by a readFiles that met no read fault, comes back
\* with the same (path, content) pairs
C6_RoundTrip ==
    (pc = "walked" /\ WriteReturned /\ ~walked.fault /\ RoundTripInput) =>
        /\ walked.state = "returned"
        /\ Pairs(walked.files) = Pairs(files)

\* a directory path relative to the walk root: plain names joined by "/"
IsRelativeDirectory(s) ==
    /\ s # <<>>
    /\ \A i \in DOMAIN Split(s, "/") : Split(s, "/")[i] \notin {<<>>, Dot, DotDot}

\* C9: every record readFiles returns has parentPath "./" (a file in the
\* walk root) or "./<relative directory>" with no trailing slash, path equal
\* to parentPath joined with name, and no ".." segment in either
C9_WalkedRecordsCanonical ==
    walked.state = "returned" =>
        \A i \in DOMAIN walked.files :
            LET f == walked.files[i] IN
            /\ \/ f.parentPath = RootParent
               \/ /\ StartsWith(f.parentPath, RootParent)
                  /\ IsRelativeDirectory(SubSeq(f.parentPath, 3, Len(f.parentPath)))
            /\ PathIsParentAndName(f)
            /\ ~HasDotDotSegment(f.parentPath)
            /\ ~HasDotDotSegment(f.path)

----------------------------------------------------------------------------
(* Claim about stripBasePath, under SpecStrip. *)

\* fullPath is basePath or lies below it
IsUnder(full, base) ==
    LET f == PathResolve(full)
        b == PathResolve(base)
    IN  Len(f) >= Len(b) /\ Prefix(f, Len(b)) = b

\* C7: stripBasePath throws exactly when fullPath is not under basePath,
\* and what it returns has no leading "./", no leading "/" and no ".."
\* segment
C7_StripFailsIffOutside ==
    stripped.state \in {"returned", "thrown"} =>
        /\ stripped.state = "thrown" <=> ~IsUnder(fullPath, basePath)
        /\ stripped.state = "returned" =>
              /\ ~StartsWith(stripped.str, <<".", "/">>)
              /\ ~StartsWith(stripped.str, <<"/">>)
              /\ ~HasDotDotSegment(stripped.str)

----------------------------------------------------------------------------
(* Claim about normalizeBuffer, under SpecBuffer. *)

\* a Buffer, or an array or object whose values are all numbers in 0..255
IsByteLike(data) ==
    \/ data.kind = "buffer"
    \/ /\ data.kind \in {"array", "object"}
       /\ \A i \in DOMAIN data.elems :
             data.elems[i].t = "number" /\ data.elems[i].v \in 0..255

\* C8: normalizeBuffer returns bytes exactly for the byte-like values (a
\* Buffer unchanged) and throws for every other value
C8_NormalizeReturnsOnlyForBytes ==
    bufOut.state \in {"returned", "thrown"} =>
        /\ bufOut.state = "returned" <=> IsByteLike(bufIn)
        /\ bufIn.kind = "buffer" => bufOut.bytes = bufIn.bytes

----------------------------------------------------------------------------
(* Claim about createAnsibleInventory, under SpecInventory. *)

\* the first stage that fails for an input, in the order of the claim
FailingStage(in) ==
    CASE in.pathArg.type # "string" \/ IsBlank(in.pathArg.str) -> "path"
      [] OTHER ->
    CASE in.import # "module" -> "import"
      [] OTHER ->
    CASE in.defaultExport # "function" -> "export"
      [] OTHER ->
    CASE in.ctx \notin {"object", "array"} -> "context"
      [] OTHER ->
    CASE in.generator.throws # "nothing" -> "run"
      [] OTHER ->
    CASE in.generator.returns \notin
             {"object", "array", "circular", "throwingToJSON", "undefinedJSON"} -> "shape"
      [] OTHER ->
    CASE in.generator.returns \in {"circular", "throwingToJSON", "undefinedJSON"}
             -> "serialize"
      [] OTHER -> "none"

\* the calls into the module that precede the failure of a stage
EffectsUpTo(stage) ==
    CASE stage = "path" -> <<>>
      [] stage \in {"import", "export", "context"} -> <<"import">>
      [] stage \in {"run", "shape"} -> <<"import", "call">>
      [] OTHER -> <<"import", "call", "stringify">>

\* C10: the call throws exactly when a stage fails, with an error that no
\* input failing at another stage produces; it stops at the first failing
\* stage and does not call the default export when an earlier stage or the
\* context check fails; when it returns, it returns inventory.json in "./"
C10_StagesDistinctAndOrdered ==
    invPc = "settled" =>
        /\ invOut.state = "thrown" <=> FailingStage(invIn) # "none"
        /\ invOut.effects = EffectsUpTo(FailingStage(invIn))
        /\ FailingStage(invIn) \in {"path", "import", "export", "context"} => invCalls = 0
        /\ invOut.state = "returned" =>
              /\ invOut.file.name = InventoryName
              /\ invOut.file.parentPath = RootParent
        /\ invOut.state = "thrown" =>
              \A other \in InventoryInputs :
                  FailingStage(other) # FailingStage(invIn)
                      => createAnsibleInventory(other).message # invOut.message

----------------------------------------------------------------------------
(* Claim about the order of the filesystem calls of writeFiles, under      *)
(* SpecWrite.                                                              *)

\* call b may be the one issued right after call a has completed
MayFollow(a, b) ==
    \/ a.op = "stat" /\ b.op = "mkdir" /\ b.rec = a.rec /\ b.path = a.path
    \/ a.op \in {"stat", "mkdir"} /\ a.rec = 0 /\ b.op = "stat" /\ b.rec = 1
    \/ a.op \in {"stat", "mkdir"} /\ a.rec >= 1 /\ b.op = "writeFile" /\ b.rec = a.rec
    \/ a.op = "writeFile" /\ b.op = "stat" /\ b.rec = a.rec + 1

\* the call is about workDir (rec = 0) or about the rec-th record of the
\* input sequence
TouchesItsRecord(o) ==
    IF o.rec = 0 THEN o.path = PathResolve(workDir)
    ELSE /\ o.rec \in 1..Len(files)
         /\ o.path = IF o.op = "writeFile"
                     THEN PathResolve(TargetPath(files[o.rec]))
                     ELSE PathResolve(TargetDir(files[o.rec]))

\* every record of the input has a completed file write
AllWritten ==
    \A i \in 1..Len(files) :
        \E n \in DOMAIN ops : ops[n].op = "writeFile" /\ ops[n].rec = i /\ ops[n].ok

\* the calls made so far: the workDir check first, every call but the last
\* completed without error, each call followed by the next one of the same
\* record or by the first one of the next record; computeMetaHash is
\* reached, and the digest returned, only after the last record's write,
\* and the digest is the one of the input sequence
CallsInInputOrder ==
    /\ ops # <<>> => (ops[1].op = "stat" /\ ops[1].rec = 0)
    /\ \A n \in 1..(Len(ops) - 1) : ops[n].ok /\ MayFollow(ops[n], ops[n + 1])
    /\ \A n \in DOMAIN ops : TouchesItsRecord(ops[n])
    /\ (pc = "hash" \/ result.state = "returned") =>
          /\ ops # <<>>
          /\ ops[Len(ops)].ok
          /\ ops[Len(ops)].rec = Len(files)
          /\ Len(files) >= 1 => ops[Len(ops)].op = "writeFile"
          /\ AllWritten
    /\ result.state = "returned" => result.digest = computeMetaHash(files)

\* one step: the input sequence is left as it is; at most one call is
\* issued, for the current record; a directory is created only after its
\* check returned false, a file is written only once its directory is there;
\* the promise settles once
OneCallPerStep ==
    /\ files' = files
    /\ ops' # ops =>
          /\ Len(ops') = Len(ops) + 1
          /\ SubSeq(ops', 1, Len(ops)) = ops
          /\ LET o == ops'[Len(ops')] IN
                /\ o.rec = idx
                /\ o.op = "mkdir" =>
                      (lastCheck.outcome = "false" /\ lastCheck.path = o.path)
                /\ o.op = "writeFile" => IsDir(fs, Parent(o.path))
    /\ result' # result => result.state = "pending"

\* C11: within one writeFiles call the filesystem calls are issued one at a
\* time and in input order: the workDir check and creation come before any
\* record, a record's directory check (and creation) before its write, the
\* next record only after that write, and computeMetaHash only after the
\* last write, over the input sequence, which no step reorders or changes
C11_CallsOneAtATimeInInputOrder ==
    []CallsInInputOrder /\ [][OneCallPerStep]_vars

\* writeFiles returned for two records after seven calls: workDir checked and
\* created, the first record written into it, the directory of the second
\* checked, created and written into
C11_Witness ==
    /\ pc = "done"
    /\ result.state = "returned"
    /\ Len(files) = 2
    /\ [n \in DOMAIN ops |-> ops[n].op] =
          <<"stat", "mkdir", "stat", "writeFile", "stat", "mkdir", "writeFile">>
    /\ [n \in DOMAIN ops |-> ops[n].rec] = <<0, 0, 1, 1, 2, 2, 2>>
    /\ result.digest = computeMetaHash(files)

====
